---- MODULE Spec2Model ----
(***************************************************************************)
(* Feature Class Export Tool (src/gui.py).                                 *)
(*                                                                         *)
(* The Export button calls export_feature_class with the five entry        *)
(* values.  The handler is synchronous; it is modelled as the sequence of  *)
(* its I/O steps (pc), each step taking the outcome the environment        *)
(* (arcpy, the file system) gives it: a value, or a raised fault.          *)
(*                                                                         *)
(* Text is modelled as sequences of tokens, dicts as sequences of          *)
(* <<key, value>> pairs in insertion order, field values as tagged         *)
(* records.                                                                *)
(***************************************************************************)
EXTENDS Integers, Sequences, FiniteSets

(* ------------------------------ bounds -------------------------------- *)

\* Export button clicks in one behaviour.
MaxRuns == 2

\* Rows a cursor yields in one export.
MaxRows == 2

\* Clock horizon, in ticks.
MaxTime == 2

\* Clock ticks per second: datetime.now() is finer than strftime's %S.
TicksPerSecond == 2

(* --------------------------- program constants ------------------------ *)

\* arcpy.SpatialReference(4326)
WGS84 == 4326

(* ------------------------------ values -------------------------------- *)

\* Python None
None == [tag |-> "None"]

Formats == {"csv", "json", "geojson"}

\* The schemas arcpy.ListFields may report (field names, source order).
Schemas == { <<"id", "created">>, <<"id", "geometry">> }

\* The k-th source record's raw value of a field, as SearchCursor returns it.
RawValue(field, k) ==
  CASE field = "id"      -> [tag |-> "int", v |-> k]
    [] field = "created" -> [tag |-> "datetime", v |-> k]
    [] OTHER             -> [tag |-> "str", v |-> k]

\* The k-th source record's SHAPE@ value: a geometry object, or None.
RawShape(k) ==
  IF k % 2 = 1 THEN [tag |-> "Geometry", srid |-> 2932, xy |-> k] ELSE None

\* One cursor row for the field list `flds` (schema + "SHAPE@").
CursorRow(flds, k) ==
  [i \in 1..Len(flds) |->
     IF flds[i] = "SHAPE@" THEN RawShape(k) ELSE RawValue(flds[i], k)]

\* The rows a cursor over `flds` may yield next.
CursorRows(flds) == { CursorRow(flds, k) : k \in 1..2 }

(* ------------------------------ text ---------------------------------- *)

\* str.replace('.', '_') on a token sequence
Replace(s) == [i \in 1..Len(s) |-> IF s[i] = "." THEN "_" ELSE s[i]]

Digit(n) ==
  CASE n = 0 -> "0" [] n = 1 -> "1" [] n = 2 -> "2" [] n = 3 -> "3"
    [] n = 4 -> "4" [] n = 5 -> "5" [] n = 6 -> "6" [] n = 7 -> "7"
    [] n = 8 -> "8" [] OTHER -> "9"

\* datetime.strftime('%Y%m%d_%H%M%S') of the clock reading t (ticks): the
\* sub-second part is dropped; the date, hour and minute are those of the
\* model's horizon and only the %S digits vary.
Strftime(t) ==
  <<"20240101_0000", Digit(((t \div TicksPerSecond) \div 10) % 6),
                     Digit((t \div TicksPerSecond) % 10)>>

\* f"{fc_name.replace('.', '_')}_{datetime.now().strftime(...)}"
generate_dynamic_filename(fc_name, t) == Replace(fc_name) \o <<"_">> \o Strftime(t)

\* os.path.join(fc_path, fc_name)
FullFcPath(fc_path, fc_name) ==
  IF fc_path = <<>> THEN fc_name ELSE fc_path \o <<"/">> \o fc_name

\* fc_name_var's initial value (line 129)
DefaultFcName == <<"TOPO", ".", "QatarLandmark">>

\* custom_filename_var's initial value (line 130): the name generated once,
\* when the window is built, at clock reading 0.
StartupFilename == generate_dynamic_filename(DefaultFcName, 0)

\* os.path.join(output_dir, f"{custom_filename}.{export_type}")
OutputFile(output_dir, custom_filename, export_type) ==
  [dir |-> output_dir, file |-> custom_filename \o <<".", export_type>>]

NoPath == [dir |-> "", file |-> <<>>]

(* ------------------------------ dicts --------------------------------- *)

Keys(d) == [i \in 1..Len(d) |-> d[i][1]]

HasKey(d, k) == \E i \in 1..Len(d) : d[i][1] = k

\* d[k]
DictGet(d, k) == d[CHOOSE i \in 1..Len(d) : d[i][1] = k][2]

\* d[k] = v : an existing key keeps its position, a new key goes last.
DictSet(d, k, v) ==
  IF HasKey(d, k)
    THEN [i \in 1..Len(d) |-> IF d[i][1] = k THEN <<k, v>> ELSE d[i]]
    ELSE Append(d, <<k, v>>)

\* {field: value for field, value in zip(names, values)}
RECURSIVE DictFromZip(_, _, _)
DictFromZip(names, values, n) ==
  IF n = 0 THEN <<>>
  ELSE DictSet(DictFromZip(names, values, n - 1), names[n], values[n])

Min(a, b) == IF a < b THEN a ELSE b

(* --------------------------- normalisation ---------------------------- *)

\* datetime.isoformat()
IsoFormat(value) == [tag |-> "str", iso |-> value.v]

\* serialize_feature: datetime values become ISO-8601 strings.
serialize_feature(feature) ==
  [i \in 1..Len(feature) |->
     IF feature[i][2].tag = "datetime"
       THEN <<feature[i][1], IsoFormat(feature[i][2])>>
       ELSE feature[i]]

\* geometry.projectAs(sr): coordinates re-expressed in sr.
ProjectAs(geometry, srid) ==
  [tag |-> "Geometry", srid |-> srid,
   xy |-> IF geometry.srid = srid THEN geometry.xy ELSE geometry.xy + 50]

\* geometry.__geo_interface__
GeoInterface(geometry) == [tag |-> "geo", type |-> "Point", coordinates |-> geometry.xy]

\* Python truthiness of row[-1]
Truthy(value) == value # None

\* Lines 50-52: the geometry entry of one row.
RowGeometry(row) ==
  IF Truthy(row[Len(row)])
    THEN GeoInterface(ProjectAs(row[Len(row)], WGS84))
    ELSE row[Len(row)]

\* Lines 49-54: one cursor row to its serialised feature dict.
RowFeature(flds, row) ==
  serialize_feature(
    DictSet(DictFromZip(SubSeq(flds, 1, Len(flds) - 1),
                        SubSeq(row, 1, Len(row) - 1),
                        Min(Len(flds) - 1, Len(row) - 1)),
            "geometry", RowGeometry(row)))

\* features.append(...)
AppendFeature_Prepend(features, feature) == <<feature>> \o features

AppendFeature(features, feature) == Append(features, feature)

(* ------------------------------ encoders ------------------------------ *)

\* {key: feature[key] for key in feature if key != "geometry"}
Properties(feature) ==
  LET keep(p) == p[1] # "geometry" IN SelectSeq(feature, keep)

\* Lines 62-72
GeoJsonOutput(features) ==
  [type |-> "FeatureCollection",
   features |-> [i \in 1..Len(features) |->
                   [type |-> "Feature",
                    geometry |-> DictGet(features[i], "geometry"),
                    properties |-> Properties(features[i])]]]

\* csv.writer's text of one value: None is the empty cell, anything else str().
CsvCell(value) == IF value = None THEN [tag |-> "cell", empty |-> TRUE]
                  ELSE [tag |-> "cell", str |-> value]

\* csv.DictWriter.writerow: the values under the header's keys, in its order.
CsvRow(fieldnames, feature) ==
  [j \in 1..Len(fieldnames) |-> CsvCell(DictGet(feature, fieldnames[j]))]

\* The items written to the file, in writing order, for each format.
\* json/geojson: the array's objects; csv: the data rows.
EncodedItems(export_type, features) ==
  CASE export_type = "geojson" -> GeoJsonOutput(features).features
    [] export_type = "json"    -> features
    [] export_type = "csv"     ->
         [i \in 1..Len(features) |-> CsvRow(Keys(features[1]), features[i])]
    [] OTHER -> <<>>

\* What precedes the items: the csv header row, the geojson collection type.
EncodedHead(export_type, features) ==
  CASE export_type = "geojson" -> <<GeoJsonOutput(features).type>>
    [] export_type = "csv"     ->
         IF features = <<>> THEN <<>> ELSE Keys(features[1])
    [] OTHER -> <<>>

\* The file a branch leaves when open, the encoder and close all succeed.
FileContent(export_type, features) ==
  [format |-> export_type,
   head |-> EncodedHead(export_type, features),
   items |-> EncodedItems(export_type, features),
   complete |-> TRUE]

\* The file a branch leaves when the write raises.  The encoders write into
\* Python's text buffer and the fault comes when the buffer is flushed, so
\* what is on disk is a prefix of the complete text: nothing at all, or the
\* head and the first n items (all of them when only the tail is missing).
PartialFile(export_type, features, head_written, n) ==
  [format |-> export_type,
   head |-> IF head_written THEN EncodedHead(export_type, features) ELSE <<>>,
   items |-> SubSeq(EncodedItems(export_type, features), 1, n),
   complete |-> FALSE]

NoFile == [format |-> "none", head |-> <<>>, items |-> <<>>, complete |-> FALSE]

(* ------------------------------ requests ------------------------------ *)

\* What the five entry widgets may hold when Export is clicked.  A blank
\* entry is the empty text; the format menu offers only the three formats.
FcPaths == { <<>>, <<"db.sde">> }
FcNames == { <<>>, DefaultFcName }
OutputDirs == { "", "out" }
CustomFilenames == { <<>>, StartupFilename }

Requests ==
  [fc_path : FcPaths, fc_name : FcNames, export_type : Formats,
   output_dir : OutputDirs, custom_filename : CustomFilenames]

NoRequest ==
  [fc_path |-> <<>>, fc_name |-> <<>>, export_type |-> "csv",
   output_dir |-> "", custom_filename |-> <<>>]

(* ------------------------------- state -------------------------------- *)

VARIABLES
  pc,            \* position of export_feature_class: "idle" when not running
  req,           \* the arguments of the current (or last) call
  runs,          \* calls made so far
  clock,         \* datetime.now(), in ticks
  status_var,    \* the status line: [kind, path]
  status_writer, \* the call that last set status_var (0: the initial "Ready")
  messagebox,    \* the dialog shown by the current call, "none" if none
  open_link,     \* folder the "open the folder" label points at, "none" if absent
  dirs,          \* directories existing on disk
  files,         \* paths of the files existing on disk
  output,        \* what the current call has written at output_file
  io,            \* the I/O operations the current call has performed
  exists_result, \* what arcpy.Exists returned to the current call
  full_fc_path,  \* local full_fc_path
  output_file,   \* local output_file
  fields,        \* local fields
  features,      \* local features
  yielded,       \* the rows the cursor has yielded to the current call
  cursor_open,   \* whether a SearchCursor is open
  fault,         \* the fault raised in the current call, "none" if none
  result,        \* "none" | "running" | "returned" | "raised" (escaped to Tk)
  generated      \* the default names derived so far (line 33), oldest first

gui == <<status_var, status_writer, messagebox, open_link>>
disk == <<dirs, files, output>>
locals == <<full_fc_path, output_file, fields, features, yielded>>
vars == <<pc, req, runs, clock, gui, disk, io, exists_result, locals,
          cursor_open, fault, result, generated>>

Status(kind, path) == [kind |-> kind, path |-> path]

Init ==
  /\ pc = "idle"
  /\ req = NoRequest
  /\ runs = 0
  /\ clock = 0
  /\ status_var = Status("Ready", NoPath)
  /\ status_writer = 0
  /\ messagebox = "none"
  /\ open_link = "none"
  /\ dirs = {}
  /\ files = {}
  /\ output = NoFile
  /\ io = {}
  /\ exists_result = "unknown"
  /\ full_fc_path = <<>>
  /\ output_file = NoPath
  /\ fields = <<>>
  /\ features = <<>>
  /\ yielded = <<>>
  /\ cursor_open = FALSE
  /\ fault = "none"
  /\ result = "none"
  /\ generated = <<>>

(* ------------------------- pieces of the handler ---------------------- *)

\* validate_feature_class: the answer of arcpy.Exists decides.
validate_feature_class_AlwaysTrue(exists) == TRUE

validate_feature_class(exists) == exists

\* `if not features`
NoFeatures_Never(fs) == FALSE

NoFeatures(fs) == fs = <<>>

\* The `with` block around the cursor: closed on leaving the block, whether
\* by falling off its end or by an exception (raised = TRUE).
WithExit_NoFinally(raised) == raised

WithExit(raised) == FALSE

\* Lines 97-102: either handler shows an error dialog carrying the fault's
\* message and sets the status line to it.
Except(site) ==
  /\ fault' = site
  /\ messagebox' = "error occurred"
  /\ status_var' = Status("Error", NoPath)
  /\ status_writer' = runs
  /\ result' = "returned"
  /\ pc' = "idle"

\* An exception outside the try block leaves the function.
Raise(site) ==
  /\ fault' = site
  /\ result' = "raised"
  /\ pc' = "idle"

(* ------------------------------ actions ------------------------------- *)

\* Time passes between two clicks.  The handler reads the clock once, in its
\* first step, so time passing while it runs is time passing after it.
Tick ==
  /\ pc = "idle"
  /\ clock < MaxTime
  /\ clock' = clock + 1
  /\ UNCHANGED <<pc, req, runs, gui, disk, io, exists_result, locals,
                 cursor_open, fault, result, generated>>

\* Lines 172-177 and 25-35: the click passes the entry values; the function
\* checks existence, then resolves the output file name.
ExportButton(r, exists) ==
  /\ pc = "idle"
  /\ runs < MaxRuns
  /\ runs' = runs + 1
  /\ req' = r
  /\ full_fc_path' = FullFcPath(r.fc_path, r.fc_name)
  /\ io' = {"Exists"}
  /\ exists_result' = IF exists THEN "True" ELSE "False"
  /\ fields' = <<>>
  /\ features' = <<>>
  /\ yielded' = <<>>
  /\ output' = NoFile
  /\ fault' = "none"
  /\ IF ~validate_feature_class(exists)
       THEN /\ messagebox' = "does not exist"
            /\ result' = "returned"
            /\ pc' = "idle"
            /\ output_file' = NoPath
            /\ generated' = generated
       ELSE LET derived == generate_dynamic_filename(r.fc_name, clock)
                custom_filename ==
                  IF r.custom_filename = <<>> THEN derived ELSE r.custom_filename
                path == OutputFile(r.output_dir, custom_filename, r.export_type)
            IN /\ messagebox' = "none"
               /\ result' = "running"
               /\ pc' = "makedirs"
               /\ output_file' = path
               /\ generated' =
                    IF r.custom_filename = <<>>
                      THEN Append(generated,
                                  [fc_name |-> r.fc_name, output_dir |-> r.output_dir,
                                   export_type |-> r.export_type, now |-> clock,
                                   path |-> path])
                      ELSE generated
  /\ UNCHANGED <<clock, status_var, status_writer, open_link, dirs, files,
                 cursor_open>>

\* Lines 37-38, the directory is there already.
MakeDirsSkip ==
  /\ pc = "makedirs"
  /\ req.output_dir \in dirs
  /\ pc' = "ListFields"
  /\ UNCHANGED <<req, runs, clock, gui, disk, io, exists_result, locals,
                 cursor_open, fault, result, generated>>

\* Lines 37-38, os.makedirs creates it.  The empty path cannot be created.
MakeDirsOk ==
  /\ pc = "makedirs"
  /\ req.output_dir \notin dirs
  /\ req.output_dir # ""
  /\ io' = io \cup {"makedirs"}
  /\ dirs' = dirs \cup {req.output_dir}
  /\ pc' = "ListFields"
  /\ UNCHANGED <<req, runs, clock, gui, files, output, exists_result, locals,
                 cursor_open, fault, result, generated>>

\* Lines 37-38, os.makedirs raises (empty path, permission, read-only disk).
MakeDirsFault ==
  /\ pc = "makedirs"
  /\ req.output_dir \notin dirs
  /\ io' = io \cup {"makedirs"}
  /\ Raise("makedirs")
  /\ UNCHANGED <<req, runs, clock, gui, disk, exists_result, locals,
                 cursor_open, generated>>

\* Lines 40-42, arcpy.ListFields answers with the schema.
ListFieldsOk(schema) ==
  /\ pc = "ListFields"
  /\ io' = io \cup {"ListFields"}
  /\ fields' = schema \o <<"SHAPE@">>
  /\ features' = <<>>
  /\ pc' = "SearchCursor"
  /\ UNCHANGED <<req, runs, clock, gui, disk, exists_result, full_fc_path,
                 output_file, yielded, cursor_open, fault, result, generated>>

\* Line 40, arcpy.ListFields raises.
ListFieldsFault ==
  /\ pc = "ListFields"
  /\ io' = io \cup {"ListFields"}
  /\ Raise("ListFields")
  /\ UNCHANGED <<req, runs, clock, gui, disk, exists_result, locals,
                 cursor_open, generated>>

\* Lines 44-47, the cursor opens.
OpenCursorOk ==
  /\ pc = "SearchCursor"
  /\ status_var' = Status("Export in Progress", NoPath)
  /\ status_writer' = runs
  /\ io' = io \cup {"SearchCursor"}
  /\ cursor_open' = TRUE
  /\ pc' = "iterate"
  /\ UNCHANGED <<req, runs, clock, messagebox, open_link, disk, exists_result,
                 locals, fault, result, generated>>

\* Lines 44-47, arcpy.da.SearchCursor raises: no cursor was opened.
OpenCursorFault ==
  /\ pc = "SearchCursor"
  /\ io' = io \cup {"SearchCursor"}
  /\ Except("SearchCursor")
  /\ UNCHANGED <<req, runs, clock, open_link, disk, exists_result, locals,
                 cursor_open, generated>>

\* Lines 48-54, the cursor yields a row and the row is normalised.
NextRowOk(row) ==
  /\ pc = "iterate"
  /\ Len(yielded) < MaxRows
  /\ yielded' = Append(yielded, row)
  /\ features' = AppendFeature(features, RowFeature(fields, row))
  /\ UNCHANGED <<pc, req, runs, clock, gui, disk, io, exists_result,
                 full_fc_path, output_file, fields, cursor_open, fault, result,
                 generated>>

\* Lines 48-52, the cursor yields a row whose geometry projectAs rejects.
NextRowProjectFault(row) ==
  /\ pc = "iterate"
  /\ Len(yielded) < MaxRows
  /\ Truthy(row[Len(row)])
  /\ yielded' = Append(yielded, row)
  /\ cursor_open' = WithExit(TRUE)
  /\ Except("projectAs")
  /\ UNCHANGED <<req, runs, clock, open_link, disk, io, exists_result,
                 full_fc_path, output_file, fields, features, generated>>

\* Line 48, the cursor raises instead of yielding.
NextRowFault ==
  /\ pc = "iterate"
  /\ cursor_open' = WithExit(TRUE)
  /\ Except("next")
  /\ UNCHANGED <<req, runs, clock, open_link, disk, io, exists_result, locals,
                 generated>>

\* Line 48, the cursor is exhausted; the with block ends.
CursorExhausted ==
  /\ pc = "iterate"
  /\ io' = io \cup {"StopIteration"}
  /\ cursor_open' = WithExit(FALSE)
  /\ pc' = "encode"
  /\ UNCHANGED <<req, runs, clock, gui, disk, exists_result, locals, fault,
                 result, generated>>

\* Lines 56-59
NoData ==
  /\ pc = "encode"
  /\ NoFeatures(features)
  /\ messagebox' = "no data to export"
  /\ status_var' = Status("No data to export", NoPath)
  /\ status_writer' = runs
  /\ result' = "returned"
  /\ pc' = "idle"
  /\ UNCHANGED <<req, runs, clock, open_link, disk, io, exists_result, locals,
                 cursor_open, fault, generated>>

\* Lines 88-95
Success ==
  /\ status_var' = Status("Export successful", output_file)
  /\ status_writer' = runs
  /\ messagebox' = "Success"
  /\ open_link' = req.output_dir
  /\ result' = "returned"
  /\ pc' = "idle"

\* Lines 61-95, the selected branch opens the file and writes every item.
\* A format outside the three branches writes nothing and still succeeds.
\* (The csv branch cannot succeed on an empty list: features[0] raises once
\* the file is open, which WriteFault covers with an empty file.)
WriteOk ==
  /\ pc = "encode"
  /\ ~NoFeatures(features)
  /\ ~(req.export_type = "csv" /\ features = <<>>)
  /\ IF req.export_type \in Formats
       THEN /\ io' = io \cup {"open", "write"}
            /\ files' = files \cup {output_file}
            /\ output' = FileContent(req.export_type, features)
       ELSE UNCHANGED <<io, files, output>>
  /\ Success
  /\ UNCHANGED <<req, runs, clock, dirs, exists_result, locals, cursor_open,
                 fault, generated>>

\* Lines 73, 77, 82: open() raises, nothing is created.
OpenFault ==
  /\ pc = "encode"
  /\ ~NoFeatures(features)
  /\ req.export_type \in Formats
  /\ io' = io \cup {"open"}
  /\ Except("open")
  /\ UNCHANGED <<req, runs, clock, open_link, disk, exists_result, locals,
                 cursor_open, generated>>

\* Lines 73-86: open() created the file and the write raises (at a flush of
\* the text buffer, at the latest when the with block closes the file).  The
\* file stays, holding the prefix that reached the disk.
WriteFault(head_written, n) ==
  /\ pc = "encode"
  /\ ~NoFeatures(features)
  /\ req.export_type \in Formats
  /\ n <= Len(features)
  /\ ~head_written => n = 0
  /\ io' = io \cup {"open", "write"}
  /\ files' = files \cup {output_file}
  /\ output' = PartialFile(req.export_type, features, head_written, n)
  /\ Except("write")
  /\ UNCHANGED <<req, runs, clock, open_link, dirs, exists_result, locals,
                 cursor_open, generated>>

Next ==
  \/ Tick
  \/ \E r \in Requests, exists \in BOOLEAN : ExportButton(r, exists)
  \/ MakeDirsSkip
  \/ MakeDirsOk
  \/ MakeDirsFault
  \/ \E schema \in Schemas : ListFieldsOk(schema)
  \/ ListFieldsFault
  \/ OpenCursorOk
  \/ OpenCursorFault
  \/ \E row \in CursorRows(fields) : NextRowOk(row)
  \/ \E row \in CursorRows(fields) : NextRowProjectFault(row)
  \/ NextRowFault
  \/ CursorExhausted
  \/ NoData
  \/ WriteOk
  \/ OpenFault
  \/ \E head_written \in BOOLEAN, n \in 0..MaxRows : WriteFault(head_written, n)

Spec == Init /\ [][Next]_vars

(* ======================= properties of the export ===================== *)

\* The current call has come back to Tk, by return or by an exception.
Finished == pc = "idle" /\ result \in {"returned", "raised"}

\* The cursor of the current call ran to exhaustion.
FullyRead == "StopIteration" \in io

\* Position of key k in a header row.
IndexOf(keys, k) == CHOOSE j \in 1..Len(keys) : keys[j] = k

\* The raw value a cursor row holds for the schema's first field.
RowFirstValue(row) == row[1]

\* The value the i-th written item holds under key k.
ItemValue(out, i, k) ==
  CASE out.format = "csv"  -> out.items[i][IndexOf(out.head, k)]
    [] out.format = "json" -> DictGet(out.items[i], k)
    [] OTHER               -> DictGet(out.items[i].properties, k)

\* Whether the i-th written item carries a geometry.
ItemHasGeometry(out, i) ==
  CASE out.format = "csv"  ->
         "str" \in DOMAIN out.items[i][IndexOf(out.head, "geometry")]
    [] out.format = "json" -> DictGet(out.items[i], "geometry") # None
    [] OTHER               -> out.items[i].geometry # None

\* A run in which nothing raised and the cursor yielded at least one row.
CleanRun ==
  /\ Finished
  /\ fault = "none"
  /\ exists_result = "True"
  /\ FullyRead
  /\ Len(yielded) >= 1

\* C1: an export whose source exists and whose cursor yields N >= 1 records,
\* nothing raising, leaves a complete file of the requested format holding
\* exactly N items, the i-th item being the i-th record the cursor yielded
\* (same id value, geometry present exactly when the record has one).
C1_ItemsFollowCursor ==
  (CleanRun /\ req.export_type \in Formats) =>
     /\ output_file \in files
     /\ output.format = req.export_type
     /\ output.complete
     /\ Len(output.items) = Len(yielded)
     /\ \A i \in 1..Len(yielded) :
          /\ LET cell == ItemValue(output, i, "id")
             IN IF output.format = "csv"
                  THEN cell = CsvCell(RowFirstValue(yielded[i]))
                  ELSE cell = RowFirstValue(yielded[i])
          /\ ItemHasGeometry(output, i) = Truthy(yielded[i][Len(yielded[i])])

\* C1 witness: a csv export of two different records, the one without
\* geometry first, has returned.
C1_Witness ==
  /\ CleanRun
  /\ req.export_type = "csv"
  /\ Len(yielded) = 2
  /\ yielded[1] # yielded[2]
  /\ ~Truthy(yielded[1][Len(yielded[1])])
  /\ output.complete

\* A required field of the request is blank.
BlankField(r) ==
  \/ r.fc_path = <<>>
  \/ r.fc_name = <<>>
  \/ r.output_dir = ""
  \/ r.export_type = ""

\* C2: a request with a blank required field ends in MissingInput before any
\* I/O: no existence check, no schema read, no directory, no file.
C2_BlankFieldNoIO ==
  (result # "none" /\ BlankField(req)) =>
     /\ io = {}
     /\ Finished => messagebox = "MissingInput"

\* C3: when the source does not exist the call reports it and returns having
\* done nothing else: no schema read, no directory or file created; and any
\* call that reads the schema, creates the directory, opens a cursor or
\* opens the output file has had its existence check answered yes before.
C3_NotFoundStops ==
  /\ [](exists_result = "False" =>
          /\ io = {"Exists"}
          /\ pc = "idle"
          /\ result = "returned"
          /\ messagebox = "does not exist"
          /\ fields = <<>>
          /\ output = NoFile)
  /\ []((io \cap {"makedirs", "ListFields", "SearchCursor", "open", "write"} # {})
          => exists_result = "True")
  /\ [][exists_result' = "False" => (dirs' = dirs /\ files' = files)]_vars

\* C3 witness: a call for an absent source has returned, after an earlier
\* call had created the directory.
C3_Witness ==
  /\ Finished
  /\ exists_result = "False"
  /\ runs = 2
  /\ dirs # {}

\* C4: when the source exists and the cursor yields nothing, the call ends
\* with "No data to export", shows the information dialog, reports no error,
\* raises nothing and opens no output file; the step that ends it leaves the
\* disk as it was.
C4_EmptySource ==
  /\ []((Finished /\ FullyRead /\ yielded = <<>>) =>
          /\ status_var = Status("No data to export", NoPath)
          /\ status_writer = runs
          /\ messagebox = "no data to export"
          /\ result = "returned"
          /\ fault = "none"
          /\ "open" \notin io
          /\ output = NoFile)
  /\ [][(pc = "encode" /\ yielded = <<>>) => (files' = files /\ dirs' = dirs)]_vars

\* C4 witness: a call on an empty source has returned.
C4_Witness ==
  /\ Finished
  /\ FullyRead
  /\ yielded = <<>>
  /\ exists_result = "True"

\* C5: no fault raised after validation leaves export_feature_class.
C5_NothingEscapes == result # "raised"

\* C6: a call that ends in a reported failure has left no file, complete or
\* partial, at its output path; and the output file is opened only after the
\* cursor was fully read.
C6_NoFileOnFailure ==
  /\ (Finished /\ result = "returned" /\ fault # "none") => output = NoFile
  /\ "open" \in io => FullyRead

\* C7: a cursor is open only while the call iterates over it: it is closed
\* whenever the call has returned, whatever the exit path, and none is open
\* when the next call starts.
C7_CursorClosed == cursor_open => (pc = "iterate" /\ result = "running")

\* C7 witness: a second call has returned after projectAs raised in the
\* middle of the iteration, one row having been read before.
C7_Witness ==
  /\ Finished
  /\ runs = 2
  /\ fault = "projectAs"
  /\ Len(yielded) = 2
  /\ ~cursor_open

\* C8: two default-named exports of the same source, directory and format,
\* run at different clock readings, resolve to different output paths.
C8_DefaultNamesNeverCollide ==
  \A i, j \in DOMAIN generated :
     ( /\ i < j
       /\ generated[i].fc_name = generated[j].fc_name
       /\ generated[i].output_dir = generated[j].output_dir
       /\ generated[i].export_type = generated[j].export_type
       /\ generated[i].now # generated[j].now )
     => generated[i].path # generated[j].path

\* The value serialisation gives a raw field value.
Normalized(value) == IF value.tag = "datetime" THEN IsoFormat(value) ELSE value

\* C9: a geojson export of a non-empty record sequence is a FeatureCollection
\* with one Feature per record in cursor order, whose geometry is the
\* record's normalised geometry (or null) and whose properties hold every
\* schema field, in schema order, with its normalised value, and no
\* geometry entry beyond them.
C9_GeoJsonShape ==
  (CleanRun /\ req.export_type = "geojson") =>
     /\ output.head = <<"FeatureCollection">>
     /\ Len(output.items) = Len(yielded)
     /\ \A i \in 1..Len(yielded) :
          LET item == output.items[i]
              row == yielded[i]
              schema == SubSeq(fields, 1, Len(fields) - 1)
          IN /\ item.type = "Feature"
             /\ item.geometry = RowGeometry(row)
             /\ Keys(item.properties) = schema
             /\ \A j \in 1..Len(schema) :
                  j <= Len(item.properties) =>
                     item.properties[j][2] = Normalized(row[j])

\* C10: once a call has returned, the status line tells that call's outcome:
\* set by that call, never "Export in Progress", "Export successful" only if
\* the call wrote its file, an error status if it failed (source not found
\* included), "No data to export" if the source was empty.
C10_StatusTellsOutcome ==
  Finished =>
     /\ status_writer = runs
     /\ status_var.kind # "Export in Progress"
     /\ status_var.kind = "Export successful" =>
          (output.complete /\ output_file \in files)
     /\ (exists_result = "False" \/ fault # "none") => status_var.kind = "Error"
     /\ (FullyRead /\ yielded = <<>>) => status_var.kind = "No data to export"

====
